---- MODULE Spec2Model ----
(***************************************************************************)
(* secretfop: one run of the sync engine (src/src/main.rs) that fetches    *)
(* VK group feeds, filters the posts against the watermark cache, delivers *)
(* them to Telegram with a single rate-limit retry, and writes the cache.  *)
(*                                                                         *)
(* Strings are sequences of one-character strings; u64 values are          *)
(* naturals (every number of the model is far below 2^64, so no           *)
(* arithmetic of the code can wrap within the bounds).                     *)
(***************************************************************************)
EXTENDS Integers, Sequences, FiniteSets, TLC

\* ------------------------------------------------------------------ bounds
\* Post ids and stored watermarks range over 1..MaxId.
MaxId == 2
\* The feeds fetched in one run hold at most MaxItems items in all.
MaxItems == 2
\* retry_after of a rate-limit answer ranges over 1..MaxRetryAfter seconds.
MaxRetryAfter == 2
\* Strings of the identifier probes have at most MaxStrLen characters.
MaxStrLen == 2

\* ------------------------------------------------------------- strings
Digits == <<"0", "1", "2", "3", "4", "5", "6", "7", "8", "9">>

IsDigit(c) == \E i \in 1..10 : Digits[i] = c

DigitVal(c) == (CHOOSE i \in 1..10 : Digits[i] = c) - 1

RECURSIVE DigitsValue(_)
DigitsValue(s) ==
    IF s = <<>> THEN 0
    ELSE 10 * DigitsValue(SubSeq(s, 1, Len(s) - 1)) + DigitVal(s[Len(s)])

\* str::parse::<u64>(): an optional leading "+", then one or more decimal
\* digits; anything else (the empty string, a lone sign, a letter) is Err.
parse_u64(s) ==
    LET body == IF s # <<>> /\ s[1] = "+" THEN Tail(s) ELSE s
    IN  IF body # <<>> /\ \A i \in 1..Len(body) : IsDigit(body[i])
        THEN [ok |-> TRUE, v |-> DigitsValue(body)]
        ELSE [ok |-> FALSE, v |-> 0]

\* u64::to_string(): the decimal digits, no sign, no leading zero.
RECURSIVE u64_to_string(_)
u64_to_string(n) ==
    IF n < 10 THEN <<Digits[n + 1]>>
    ELSE Append(u64_to_string(n \div 10), Digits[(n % 10) + 1])

\* ----------------------------------------------------------- Snowflake
Number(v) == [tag |-> "Number", v |-> v]
String(s) == [tag |-> "String", s |-> s]

\* SnowflakeRef::flatten
flatten(id) ==
    IF id.tag = "Number" THEN id
    ELSE IF parse_u64(id.s).ok THEN Number(parse_u64(id.s).v) ELSE id

\* ToString for Snowflake / SnowflakeRef
to_string(id) ==
    IF id.tag = "String" THEN id.s ELSE u64_to_string(id.v)

\* u64::cmp
cmp(a, b) == IF a < b THEN "Less" ELSE IF a = b THEN "Equal" ELSE "Greater"

\* impl PartialOrd<u64> for SnowflakeRef: "None" is Option::None.
partial_cmp_u64(id, other) ==
    IF id.tag = "Number" THEN cmp(id.v, other)
    ELSE IF parse_u64(id.s).ok THEN cmp(parse_u64(id.s).v, other) ELSE "None"

\* impl PartialEq for SnowflakeRef: two strings are compared as strings; a
\* string and a number, in either order, by the parse of the string.
eq(a, b) ==
    CASE a.tag = "Number" /\ b.tag = "Number" -> a.v = b.v
      [] a.tag = "String" /\ b.tag = "String" -> a.s = b.s
      [] a.tag = "String" /\ b.tag = "Number" ->
            parse_u64(a.s).ok /\ parse_u64(a.s).v = b.v
      [] a.tag = "Number" /\ b.tag = "String" ->
            parse_u64(b.s).ok /\ parse_u64(b.s).v = a.v

\* impl PartialOrd for SnowflakeRef: the or-pattern binds a to the string
\* and b to the number in either operand order, and the result is always
\* the parsed string compared with the number.
partial_cmp(a, b) ==
    CASE a.tag = "Number" /\ b.tag = "Number" -> cmp(a.v, b.v)
      [] a.tag = "String" /\ b.tag = "String" -> "None"
      [] a.tag = "String" /\ b.tag = "Number" ->
            IF parse_u64(a.s).ok THEN cmp(parse_u64(a.s).v, b.v) ELSE "None"
      [] a.tag = "Number" /\ b.tag = "String" ->
            IF parse_u64(b.s).ok THEN cmp(parse_u64(b.s).v, a.v) ELSE "None"

\* The operator > that PartialOrd derives from partial_cmp.
gt_u64(id, other) == partial_cmp_u64(id, other) = "Greater"

\* SnowflakeRef::unwrap_number panics on a String.
unwrap_number_panics(id) == id.tag # "Number"

unwrap_number(id) == IF id.tag = "Number" THEN id.v ELSE 0

\* ------------------------------------------------------------ sequences
RECURSIVE Reverse(_)
Reverse(s) == IF s = <<>> THEN <<>> ELSE Append(Reverse(Tail(s)), Head(s))

RECURSIVE Concat(_)
Concat(ss) == IF ss = <<>> THEN <<>> ELSE Head(ss) \o Concat(Tail(ss))

Range(s) == {s[i] : i \in 1..Len(s)}

\* ---------------------------------------------------------- data model
\* CacheRecords::new(): the empty map of CacheRecords.vk.
EmptyRecords == [k \in {} |-> 0]

\* Vec<VKMedia> of an item: no photo, or one photo.
MediaLists == {<<>>, <<"Photo">>}

\* VKItem (text left out: nothing in main.rs reads it before delivery).
VKItems == [id : 1..MaxId, media : MediaLists]

\* items of a VKGroupFeed: at most max items, ids unique in a feed.
ItemLists(max) ==
    {s \in UNION {[1..n -> VKItems] : n \in 0..max} :
        \A i, j \in 1..Len(s) : i # j => s[i].id # s[j].id}

\* VKGroupFeed::as_iter: every item becomes a ForeignPost with Number ids.
as_iter(feed) ==
    [i \in 1..Len(feed.items) |->
        [id        |-> Number(feed.items[i].id),
         source_id |-> Number(feed.group_id),
         media     |-> feed.items[i].media]]

\* The configured accounts (Config.vk) of the runs checked: two different
\* groups, the same group under its number and under its numeric string,
\* and a single group.
Configs ==
    {<<Number(1), Number(2)>>, <<Number(1), String(<<"1">>)>>, <<Number(2)>>}

\* The group a request is answered for: get_posts(id).send() flattens the id
\* and asks for owner_id = -v; the feed carries that group's id.
requested_group(id) == flatten(id).v

\* Keys of the cache file: the string forms of the group ids.
CacheKeys == {u64_to_string(g) : g \in 1..2}

Stores == UNION {[K -> 1..MaxId] : K \in SUBSET CacheKeys}

\* The cache file before the run: absent, unreadable (open fails with
\* another error than NotFound), not parseable, or a serialized CacheRecords.
Disks ==
    {[kind |-> k, vk |-> EmptyRecords] : k \in {"missing", "denied", "garbage"}}
        \cup {[kind |-> "json", vk |-> s] : s \in Stores}

NoPost == [id |-> Number(0), source_id |-> Number(0), media |-> <<>>]

\* --------------------------------------------------------- the filter
\* Mutant of eligible: the comparison admits the id equal to the record.
eligible_ge(f, records) ==
    /\ f.media # <<>>
    /\ LET key == to_string(f.source_id)
       IN  IF key \in DOMAIN records
           THEN partial_cmp_u64(f.id, records[key]) \in {"Greater", "Equal"}
           ELSE TRUE

\* Mutant of eligible: the media of the post is not looked at.
eligible_any_media(f, records) ==
    LET key == to_string(f.source_id)
    IN  IF key \in DOMAIN records THEN gt_u64(f.id, records[key]) ELSE TRUE

\* The closure of posts.filter(..): media non-empty and either no record of
\* the source or id > record.
eligible(f, records) ==
    /\ f.media # <<>>
    /\ LET key == to_string(f.source_id)
       IN  IF key \in DOMAIN records THEN gt_u64(f.id, records[key]) ELSE TRUE

\* feeds.iter().flat_map(as_iter).filter(..), then .rev() in the loops.
filtered(fs, records) ==
    SelectSeq(Concat([i \in 1..Len(fs) |-> as_iter(fs[i])]),
              LAMBDA f : eligible(f, records))

\* Mutant of posts_rev: the loops take the posts in feed order.
posts_unreversed(fs, records) ==
    SelectSeq(Concat([i \in 1..Len(fs) |-> as_iter(fs[i])]),
              LAMBDA f : eligible(f, records))

posts_rev(fs, records) == Reverse(filtered(fs, records))

\* ------------------------------------------------ the watermark update
\* Mutant of advance: the record is overwritten without the comparison.
advance_overwrite(records, p) ==
    LET key == to_string(p.source_id)
    IN  IF key \in DOMAIN records
        THEN [records EXCEPT ![key] = unwrap_number(p.id)]
        ELSE records @@ (key :> unwrap_number(p.id))

\* Mutant of advance: only or_insert_with, an existing record is left.
advance_insert_only(records, p) ==
    LET key == to_string(p.source_id)
    IN  IF key \in DOMAIN records
        THEN records
        ELSE records @@ (key :> unwrap_number(p.id))

\* entry(key).and_modify(|k| if post.id > *k { *k = id }).or_insert_with(id)
advance(records, p) ==
    LET key == to_string(p.source_id)
    IN  IF key \in DOMAIN records
        THEN IF gt_u64(p.id, records[key])
             THEN [records EXCEPT ![key] = unwrap_number(p.id)]
             ELSE records
        ELSE records @@ (key :> unwrap_number(p.id))

\* The update calls unwrap_number exactly when it writes.
advance_panics(records, p) ==
    LET key == to_string(p.source_id)
    IN  /\ unwrap_number_panics(p.id)
        /\ (key \in DOMAIN records => gt_u64(p.id, records[key]))

\* --------------------------------------------------------------- state
VARIABLES
    populate,           \* Args.populate
    cfg,                \* Config.vk: the configured accounts, in order
    disk,               \* the cache file
    pc,                 \* where main() is
    cache_records,      \* the loaded CacheRecords.vk (never written again)
    new_cache_records,  \* its clone, the map the run updates and writes
    jobs,               \* the futures handed to join_all, one per account
    feeds,              \* the feeds of the fetches that returned Ok
    posts,              \* what posts.rev() has still to yield
    post,               \* the post of the current loop iteration
    res,                \* the Result of the last send() of that post
    attempts,           \* send() calls made for that post
    sleeps,             \* durations slept for that post
    processed,          \* the posts the loops are through with, in order
    written,            \* how the write of the cache ended
    probe,              \* probes: the arguments given
    verdict             \* probes: what the closure or the operators answered

vars == <<populate, cfg, disk, pc, cache_records, new_cache_records, jobs,
          feeds, posts, post, res, attempts, sleeps, processed, written,
          probe, verdict>>

NoRes == [kind |-> "none", timeout |-> 0]
NoProbe == [f |-> NoPost, records |-> EmptyRecords]

\* The loop a run enters after the filter, or the write once posts is empty.
loop_pc(rest) ==
    IF rest = <<>> THEN "persist" ELSE IF populate THEN "populate" ELSE "deliver"

Init ==
    /\ populate \in BOOLEAN
    /\ cfg \in Configs
    /\ disk \in Disks
    /\ pc = "start"
    /\ cache_records = EmptyRecords
    /\ new_cache_records = EmptyRecords
    /\ jobs = <<>>
    /\ feeds = <<>>
    /\ posts = <<>>
    /\ post = NoPost
    /\ res = NoRes
    /\ attempts = 0
    /\ sleeps = <<>>
    /\ processed = <<>>
    /\ written = "none"
    /\ probe = NoProbe
    /\ verdict = "none"

\* main.rs 73-81: what the parse of the cache file gives: the stored map, or
\* CacheRecords::new() for a missing file and for one that does not parse.
loaded(d) == IF d.kind = "json" THEN d.vk ELSE EmptyRecords

\* main.rs 63-92: open and parse the cache file, clone it, start the fetches.
\* An open error other than NotFound ends the process with FAILURE.
LoadCache ==
    /\ pc = "start"
    /\ IF disk.kind = "denied"
       THEN /\ pc' = "exit_failure"
            /\ UNCHANGED <<cache_records, new_cache_records, jobs>>
       ELSE /\ cache_records' = loaded(disk)
            /\ new_cache_records' = cache_records'
            /\ jobs' = [i \in 1..Len(cfg) |-> [st |-> "pending", group_id |-> 0, items |-> <<>>]]
            /\ pc' = "fetch"
    /\ UNCHANGED <<populate, cfg, disk, feeds, posts, post, res, attempts,
                   sleeps, processed, written, probe, verdict>>

\* The items the settled fetches of the run returned.
RECURSIVE ItemCount(_)
ItemCount(js) ==
    IF js = <<>> THEN 0 ELSE Len(Head(js).items) + ItemCount(Tail(js))

Fetched == ItemCount(jobs)

\* vk.rs 185-262: one pending fetch settles, in any order: with an error
\* (Http, Scheme, Server, Content), with a feed of the requested group, or,
\* when a photo of the answer has no sizes, with the panic of expect().
FetchSettle(i) ==
    /\ pc = "fetch"
    /\ jobs[i].st = "pending"
    /\ \E outcome \in {"Err", "Ok", "Panic"} :
         CASE outcome = "Err" ->
                /\ jobs' = [jobs EXCEPT ![i].st = "Err"]
                /\ pc' = pc
           [] outcome = "Ok" ->
                /\ \E items \in ItemLists(MaxItems - Fetched) :
                     jobs' = [jobs EXCEPT ![i] =
                                [st |-> "Ok",
                                 group_id |-> requested_group(cfg[i]),
                                 items |-> items]]
                /\ pc' = pc
           [] outcome = "Panic" ->
                /\ jobs' = jobs
                /\ pc' = "panic"
    /\ UNCHANGED <<populate, cfg, disk, cache_records, new_cache_records, feeds,
                   posts, post, res, attempts, sleeps, processed, written, probe, verdict>>

\* Mutant of Collect: the results are taken as soon as one fetch settled.
CollectEarly ==
    /\ pc = "fetch"
    /\ \E i \in 1..Len(jobs) : jobs[i].st # "pending"
    /\ feeds' = [j \in 1..Len(SelectSeq(jobs, LAMBDA r : r.st = "Ok")) |->
                   [group_id |-> SelectSeq(jobs, LAMBDA r : r.st = "Ok")[j].group_id,
                    items    |-> SelectSeq(jobs, LAMBDA r : r.st = "Ok")[j].items]]
    /\ posts' = posts_rev(feeds', cache_records)
    /\ pc' = loop_pc(posts')
    /\ UNCHANGED <<populate, cfg, disk, cache_records, new_cache_records, jobs,
                   post, res, attempts, sleeps, processed, written, probe, verdict>>

\* Mutant of Collect: one failed fetch discards the feeds of all.
CollectAllOrNothing ==
    /\ pc = "fetch"
    /\ \A i \in 1..Len(jobs) : jobs[i].st # "pending"
    /\ feeds' = IF \E i \in 1..Len(jobs) : jobs[i].st = "Err" THEN <<>>
                ELSE [j \in 1..Len(jobs) |->
                        [group_id |-> jobs[j].group_id, items |-> jobs[j].items]]
    /\ posts' = posts_rev(feeds', cache_records)
    /\ pc' = loop_pc(posts')
    /\ UNCHANGED <<populate, cfg, disk, cache_records, new_cache_records, jobs,
                   post, res, attempts, sleeps, processed, written, probe, verdict>>

\* main.rs 92-111: join_all has every result; the Ok feeds are kept in the
\* order of the accounts, and the filter over them is set up.
Collect ==
    /\ pc = "fetch"
    /\ \A i \in 1..Len(jobs) : jobs[i].st # "pending"
    /\ feeds' = [j \in 1..Len(SelectSeq(jobs, LAMBDA r : r.st = "Ok")) |->
                   [group_id |-> SelectSeq(jobs, LAMBDA r : r.st = "Ok")[j].group_id,
                    items    |-> SelectSeq(jobs, LAMBDA r : r.st = "Ok")[j].items]]
    /\ posts' = posts_rev(feeds', cache_records)
    /\ pc' = loop_pc(posts')
    /\ UNCHANGED <<populate, cfg, disk, cache_records, new_cache_records, jobs,
                   post, res, attempts, sleeps, processed, written, probe, verdict>>

\* main.rs 116-126: one iteration of the populate loop.
PopulateStep ==
    /\ pc = "populate"
    /\ posts # <<>>
    /\ posts' = Tail(posts)
    /\ IF advance_panics(new_cache_records, Head(posts))
       THEN /\ pc' = "panic"
            /\ UNCHANGED <<new_cache_records, processed>>
       ELSE /\ new_cache_records' = advance(new_cache_records, Head(posts))
            /\ processed' = Append(processed, [post |-> Head(posts), state |-> "Populated"])
            /\ pc' = loop_pc(posts')
    /\ UNCHANGED <<populate, cfg, disk, cache_records, jobs, feeds, post, res,
                   attempts, sleeps, written, probe, verdict>>

\* telegram.rs 155-212: what one send() of a post returns. A post without
\* media reaches unimplemented!(); an Ok answer with an empty result list
\* fails the index result[0]; error 429 with parameters is RateLimited; every
\* other failure (Http, Scheme, Server) is an error without a timeout.
SendResults(f) ==
    IF f.media = <<>> THEN {[kind |-> "Panic", timeout |-> 0]}
    ELSE {[kind |-> k, timeout |-> 0] : k \in {"Ok", "Err", "Panic"}}
            \cup {[kind |-> "RateLimited", timeout |-> t] : t \in 1..MaxRetryAfter}

\* main.rs 132: only a RateLimited first result leads to the sleep.
after_send(r) ==
    IF r.kind = "Panic" THEN "panic"
    ELSE IF r.kind = "RateLimited" THEN "ratelimited" ELSE "result"

\* Mutant of Send: the next post is sent while the one before waits for
\* its retry.
SendOverlapping ==
    /\ pc \in {"deliver", "ratelimited"}
    /\ posts # <<>>
    /\ post' = Head(posts)
    /\ posts' = Tail(posts)
    /\ \E r \in SendResults(post') :
         /\ res' = r
         /\ pc' = after_send(r)
    /\ attempts' = 1
    /\ sleeps' = <<>>
    /\ UNCHANGED <<populate, cfg, disk, cache_records, new_cache_records, jobs,
                   feeds, processed, written, probe, verdict>>

\* main.rs 128-130: the loop takes the next post and sends it.
Send ==
    /\ pc = "deliver"
    /\ posts # <<>>
    /\ post' = Head(posts)
    /\ posts' = Tail(posts)
    /\ \E r \in SendResults(post') :
         /\ res' = r
         /\ pc' = after_send(r)
    /\ attempts' = 1
    /\ sleeps' = <<>>
    /\ UNCHANGED <<populate, cfg, disk, cache_records, new_cache_records, jobs,
                   feeds, processed, written, probe, verdict>>

\* main.rs 132-133: the first result was RateLimited: sleep for its timeout.
Sleep ==
    /\ pc = "ratelimited"
    /\ sleeps' = Append(sleeps, res.timeout)
    /\ pc' = "retry"
    /\ UNCHANGED <<populate, cfg, disk, cache_records, new_cache_records, jobs,
                   feeds, posts, post, res, attempts, processed, written, probe,
                   verdict>>

\* Mutant of Retry: a RateLimited result of the retry is waited for and
\* retried again.
RetryAgain ==
    /\ pc = "retry"
    /\ attempts < 3
    /\ \E r \in SendResults(post) :
         /\ res' = r
         /\ pc' = after_send(r)
    /\ attempts' = attempts + 1
    /\ UNCHANGED <<populate, cfg, disk, cache_records, new_cache_records, jobs,
                   feeds, posts, post, sleeps, processed, written, probe, verdict>>

\* main.rs 134: the second send(); its result is the result of the block,
\* whatever it is.
Retry ==
    /\ pc = "retry"
    /\ \E r \in SendResults(post) :
         /\ res' = r
         /\ pc' = IF r.kind = "Panic" THEN "panic" ELSE "result"
    /\ attempts' = attempts + 1
    /\ UNCHANGED <<populate, cfg, disk, cache_records, new_cache_records, jobs,
                   feeds, posts, post, sleeps, processed, written, probe, verdict>>

\* Mutant of Commit: the record is updated whatever the result was.
CommitUnconditional ==
    /\ pc = "result"
    /\ new_cache_records' = advance(new_cache_records, post)
    /\ processed' = Append(processed,
          [post |-> post,
           state |-> IF res.kind = "Ok" THEN "Delivered" ELSE "Skipped"])
    /\ pc' = loop_pc(posts)
    /\ post' = NoPost
    /\ res' = NoRes
    /\ attempts' = 0
    /\ sleeps' = <<>>
    /\ UNCHANGED <<populate, cfg, disk, cache_records, jobs, feeds, posts,
                   written, probe, verdict>>

\* Mutant of Commit: every success is written through to the cache file.
CommitWriteThrough ==
    /\ pc = "result"
    /\ IF res.kind # "Ok"
       THEN /\ processed' = Append(processed, [post |-> post, state |-> "Skipped"])
            /\ pc' = loop_pc(posts)
            /\ UNCHANGED <<new_cache_records, disk>>
       ELSE /\ new_cache_records' = advance(new_cache_records, post)
            /\ disk' = [kind |-> "json", vk |-> new_cache_records']
            /\ processed' = Append(processed, [post |-> post, state |-> "Delivered"])
            /\ pc' = loop_pc(posts)
    /\ post' = NoPost
    /\ res' = NoRes
    /\ attempts' = 0
    /\ sleeps' = <<>>
    /\ UNCHANGED <<populate, cfg, cache_records, jobs, feeds, posts,
                   written, probe, verdict>>

\* main.rs 139-151: an error is reported; on Ok the record of the post's
\* source is updated. The iteration ends: post and res go out of scope.
Commit ==
    /\ pc = "result"
    /\ IF res.kind # "Ok"
       THEN /\ processed' = Append(processed, [post |-> post, state |-> "Skipped"])
            /\ pc' = loop_pc(posts)
            /\ UNCHANGED new_cache_records
       ELSE IF advance_panics(new_cache_records, post)
       THEN /\ pc' = "panic"
            /\ UNCHANGED <<new_cache_records, processed>>
       ELSE /\ new_cache_records' = advance(new_cache_records, post)
            /\ processed' = Append(processed, [post |-> post, state |-> "Delivered"])
            /\ pc' = loop_pc(posts)
    /\ post' = NoPost
    /\ res' = NoRes
    /\ attempts' = 0
    /\ sleeps' = <<>>
    /\ UNCHANGED <<populate, cfg, disk, cache_records, jobs, feeds, posts,
                   written, probe, verdict>>

\* Mutant of Persist: only the records this run changed are written.
PersistChangedOnly ==
    /\ pc = "persist"
    /\ \E outcome \in {"ok", "serialize_err", "create_err", "write_err"} :
         /\ disk' = CASE outcome = "ok" ->
                           [kind |-> "json",
                            vk |-> [k \in {x \in DOMAIN new_cache_records :
                                              x \notin DOMAIN cache_records
                                                \/ new_cache_records[x] # cache_records[x]}
                                      |-> new_cache_records[k]]]
                      [] outcome = "write_err" ->
                           [kind |-> "garbage", vk |-> EmptyRecords]
                      [] OTHER -> disk
         /\ written' = IF outcome = "ok" THEN "ok" ELSE "failed"
    /\ pc' = "exit_success"
    /\ UNCHANGED <<populate, cfg, cache_records, new_cache_records, jobs, feeds,
                   posts, post, res, attempts, sleeps, processed, probe, verdict>>

\* Mutant of Persist: the loaded map is written, not the updated clone.
PersistLoaded ==
    /\ pc = "persist"
    /\ \E outcome \in {"ok", "serialize_err", "create_err", "write_err"} :
         /\ disk' = CASE outcome = "ok" ->
                           [kind |-> "json", vk |-> cache_records]
                      [] outcome = "write_err" ->
                           [kind |-> "garbage", vk |-> EmptyRecords]
                      [] OTHER -> disk
         /\ written' = IF outcome = "ok" THEN "ok" ELSE "failed"
    /\ pc' = "exit_success"
    /\ UNCHANGED <<populate, cfg, cache_records, new_cache_records, jobs, feeds,
                   posts, post, res, attempts, sleeps, processed, probe, verdict>>

\* main.rs 155-163: serialize and write the cache, once. fs::write creates
\* (truncates) the file and then writes: when the serialization fails, or
\* the create, the file is as before; when the write fails after the
\* truncation, what is left is no parseable cache. The exit is SUCCESS.
Persist ==
    /\ pc = "persist"
    /\ \E outcome \in {"ok", "serialize_err", "create_err", "write_err"} :
         /\ disk' = CASE outcome = "ok" ->
                           [kind |-> "json", vk |-> new_cache_records]
                      [] outcome = "write_err" ->
                           [kind |-> "garbage", vk |-> EmptyRecords]
                      [] OTHER -> disk
         /\ written' = IF outcome = "ok" THEN "ok" ELSE "failed"
    /\ pc' = "exit_success"
    /\ UNCHANGED <<populate, cfg, cache_records, new_cache_records, jobs, feeds,
                   posts, post, res, attempts, sleeps, processed, probe, verdict>>

Next ==
    \/ LoadCache
    \/ \E i \in 1..Len(jobs) : FetchSettle(i)
    \/ Collect
    \/ PopulateStep
    \/ Send
    \/ Sleep
    \/ Retry
    \/ Commit
    \/ Persist

Spec == Init /\ [][Next]_vars

\* ------------------------------------------------------ filter probes
\* The closure of the filter applied to one post and one map of records,
\* with every kind of identifier a ForeignPost can carry.
ProbeChars == {"0", "1", "2", "a", "+"}

ProbeStrings == UNION {[1..n -> ProbeChars] : n \in 0..MaxStrLen}

ProbeIds == {Number(n) : n \in 0..MaxId} \cup {String(s) : s \in ProbeStrings}

ProbeSources == {Number(1), String(<<"a">>)}

ProbeRecords ==
    UNION {[K -> 0..MaxId] : K \in SUBSET {to_string(s) : s \in ProbeSources}}

ProbePosts == [id : ProbeIds, source_id : ProbeSources, media : MediaLists]

InitFilter ==
    /\ populate = FALSE
    /\ cfg = <<>>
    /\ disk = [kind |-> "missing", vk |-> EmptyRecords]
    /\ pc = "probe"
    /\ cache_records = EmptyRecords
    /\ new_cache_records = EmptyRecords
    /\ jobs = <<>>
    /\ feeds = <<>>
    /\ posts = <<>>
    /\ post = NoPost
    /\ res = NoRes
    /\ attempts = 0
    /\ sleeps = <<>>
    /\ processed = <<>>
    /\ written = "none"
    /\ probe \in [f : ProbePosts, records : ProbeRecords]
    /\ verdict = "none"

\* main.rs 104-111: the closure answers for the probe.
ApplyFilter ==
    /\ pc = "probe"
    /\ verdict' = IF eligible(probe.f, probe.records) THEN "kept" ELSE "dropped"
    /\ pc' = "probed"
    /\ UNCHANGED <<populate, cfg, disk, cache_records, new_cache_records, jobs,
                   feeds, posts, post, res, attempts, sleeps, processed, written,
                   probe>>

NextFilter == ApplyFilter

SpecFilter == InitFilter /\ [][NextFilter]_vars

\* -------------------------------------------------- comparison probes
\* == and partial_cmp applied to a pair of identifiers, in both operand
\* orders.
NoVerdict == [eq_ab |-> FALSE, eq_ba |-> FALSE, cmp_ab |-> "None", cmp_ba |-> "None"]

InitCompare ==
    /\ populate = FALSE
    /\ cfg = <<>>
    /\ disk = [kind |-> "missing", vk |-> EmptyRecords]
    /\ pc = "compare"
    /\ cache_records = EmptyRecords
    /\ new_cache_records = EmptyRecords
    /\ jobs = <<>>
    /\ feeds = <<>>
    /\ posts = <<>>
    /\ post = NoPost
    /\ res = NoRes
    /\ attempts = 0
    /\ sleeps = <<>>
    /\ processed = <<>>
    /\ written = "none"
    /\ probe \in [a : ProbeIds, b : ProbeIds]
    /\ verdict = NoVerdict

\* config.rs 92-124: the two operators answer for the pair.
ApplyCompare ==
    /\ pc = "compare"
    /\ verdict' = [eq_ab  |-> eq(probe.a, probe.b),
                   eq_ba  |-> eq(probe.b, probe.a),
                   cmp_ab |-> partial_cmp(probe.a, probe.b),
                   cmp_ba |-> partial_cmp(probe.b, probe.a)]
    /\ pc' = "compared"
    /\ UNCHANGED <<populate, cfg, disk, cache_records, new_cache_records, jobs,
                   feeds, posts, post, res, attempts, sleeps, processed, written,
                   probe>>

NextCompare == ApplyCompare

SpecCompare == InitCompare /\ [][NextCompare]_vars

\* ------------------------------------------------------------- claims
\* The string form of a group id, the key of its record.
KeyOf(g) == u64_to_string(g)

SamePost(p, q) == p.id = q.id /\ p.source_id = q.source_id

Delivered(i) == processed[i].state = "Delivered"

Skipped(i) == processed[i].state = "Skipped"

\* C1: in normal mode no post (source id, post id) is delivered
\* successfully more than once in a run, whatever accounts are configured.
AtMostOncePerRun ==
    ~populate =>
        \A i, j \in 1..Len(processed) :
            (i # j /\ Delivered(i) /\ Delivered(j))
                => ~SamePost(processed[i].post, processed[j].post)

\* The item lists a later fetch can return.
LaterItemLists == ItemLists(MaxItems)

\* The feeds of a group that a later fetch can return with the post in them.
FeedsWith(p) ==
    {[group_id |-> p.source_id.v, items |-> items] : items \in
        {s \in LaterItemLists :
            \E n \in 1..Len(s) : s[n].id = p.id.v /\ s[n].media = p.media}}

\* What the filter of the next run keeps of a feed: that run loads the file
\* this run left.
NextRunKeeps(feed, p) ==
    LET kept == filtered(<<feed>>, loaded(disk))
    IN  \E n \in 1..Len(kept) : SamePost(kept[n], p)

\* Every fetched feed is newest first: its ids strictly decrease.
NewestFirst ==
    \A i \in 1..Len(feeds) : \A a, b \in 1..Len(feeds[i].items) :
        a < b => feeds[i].items[a].id > feeds[i].items[b].id

\* C2: a post that ends a normal run Skipped (and that no other entry of
\* the run delivered) is kept by the filter of the next run, which loads the
\* cache this run wrote, whatever happened to the other posts; stated for
\* the runs whose feeds are all newest first.
SkippedStaysEligible ==
    (pc = "exit_success" /\ ~populate /\ written = "ok" /\ NewestFirst) =>
        \A i \in 1..Len(processed) :
            (/\ Skipped(i)
             /\ ~\E j \in 1..Len(processed) :
                    Delivered(j) /\ SamePost(processed[j].post, processed[i].post))
                => \A feed \in FeedsWith(processed[i].post) :
                        NextRunKeeps(feed, processed[i].post)

\* C8: a post with media whose id is a string that does not parse as a
\* number is kept by the filter, with or without a record of its source.
NonCoercibleIdIsUnseen ==
    (/\ verdict # "none"
     /\ probe.f.id.tag = "String"
     /\ ~parse_u64(probe.f.id.s).ok
     /\ probe.f.media # <<>>)
        => verdict = "kept"

\* The filter as the contract words it, on the items of a feed: media not
\* empty, and no record under the string form of the source id or an id
\* strictly above the record.
Unseen(item, group, records) ==
    /\ item.media # <<>>
    /\ (KeyOf(group) \notin DOMAIN records \/ item.id > records[KeyOf(group)])

ProcessedPosts == [i \in 1..Len(processed) |-> processed[i].post]

\* The whole processing order of the run: what the loops are through with,
\* the post in hand, what is still to come.
Order == ProcessedPosts \o (IF post = NoPost THEN <<>> ELSE <<post>>) \o posts

Filtering == pc \in {"populate", "deliver", "ratelimited", "retry", "result",
                     "persist", "exit_success"}

LastProcessed == processed'[Len(processed')]

\* C3: every update of a record writes the candidate id exactly when the
\* key is absent or the candidate is strictly greater, and changes nothing
\* otherwise; doing it again changes nothing; no step removes a key or
\* lowers a record; every record is at least its loaded value. In both modes.
WatermarkMonotone ==
    [][/\ \A k \in DOMAIN cache_records' :
            k \in DOMAIN new_cache_records'
                /\ new_cache_records'[k] >= cache_records'[k]
       /\ \A k \in DOMAIN new_cache_records :
            k \in DOMAIN new_cache_records'
                /\ new_cache_records'[k] >= new_cache_records[k]
       /\ (processed' # processed /\ LastProcessed.state # "Skipped") =>
            LET k == KeyOf(LastProcessed.post.source_id.v)
                c == LastProcessed.post.id.v
            IN  /\ new_cache_records' =
                     IF k \notin DOMAIN new_cache_records \/ c > new_cache_records[k]
                     THEN [x \in DOMAIN new_cache_records \cup {k} |->
                              IF x = k THEN c ELSE new_cache_records[x]]
                     ELSE new_cache_records
                /\ advance(new_cache_records', LastProcessed.post)
                     = new_cache_records'
      ]_vars

\* C3 witness: an update that changed nothing was made: a post was taken
\* after a post of the same source with a greater id, and the record is the
\* greater id.
UpdateWasNoOp ==
    \E i, j \in 1..Len(processed) :
        /\ i < j
        /\ processed[i].state # "Skipped" /\ processed[j].state # "Skipped"
        /\ processed[i].post.source_id = processed[j].post.source_id
        /\ processed[i].post.id.v > processed[j].post.id.v
        /\ new_cache_records[KeyOf(processed[i].post.source_id.v)]
             = processed[i].post.id.v

\* C4: after a run whose write succeeded, the filter of a run that loads
\* the written cache keeps no post this run delivered, whatever feed of its
\* source the post comes back in.
NoRedeliveryNextRun ==
    written = "ok" =>
        \A i \in 1..Len(processed) :
            Delivered(i) =>
                \A feed \in FeedsWith(processed[i].post) :
                    ~NextRunKeeps(feed, processed[i].post)

\* C4 witness: a post was delivered and the cache was written with its id
\* as the record of its source.
DeliveredAndWritten ==
    /\ written = "ok"
    /\ \E i \in 1..Len(processed) :
         /\ Delivered(i)
         /\ KeyOf(processed[i].post.source_id.v) \in DOMAIN loaded(disk)
         /\ loaded(disk)[KeyOf(processed[i].post.source_id.v)] = processed[i].post.id.v

\* C5: in normal mode, once loaded, the map changes only in the step right
\* after a send() that returned Ok, and only at the key of that post's
\* source; the step after a failed delivery changes no record.
AdvanceOnlyOnSuccess ==
    [][(~populate /\ pc # "start") =>
          /\ new_cache_records' # new_cache_records =>
                /\ pc = "result" /\ res.kind = "Ok" /\ attempts \in {1, 2}
                /\ \A k \in DOMAIN new_cache_records' :
                      k # to_string(post.source_id) =>
                          /\ k \in DOMAIN new_cache_records
                          /\ new_cache_records'[k] = new_cache_records[k]
          /\ (pc = "result" /\ res.kind # "Ok") =>
                new_cache_records' = new_cache_records
      ]_vars

\* C5 witness: one post was skipped and its source has no record, another
\* source's post was delivered and has its record.
SkipLeftNoRecord ==
    /\ ~populate
    /\ \E i, j \in 1..Len(processed) :
         /\ Skipped(i) /\ Delivered(j)
         /\ KeyOf(processed[i].post.source_id.v) \notin DOMAIN new_cache_records
         /\ KeyOf(processed[j].post.source_id.v) \in DOMAIN new_cache_records

\* C6: per post of the processing order send() is called at most twice; the
\* second call is made only after a first RateLimited result and exactly one
\* sleep of its timeout, and a first RateLimited result leads nowhere else;
\* the result of the last call decides: Ok delivers and updates the record,
\* anything else (a second RateLimited too) skips without another wait.
SingleBoundedRetry ==
    [][/\ attempts' <= 2 /\ Len(sleeps') <= 1
       /\ attempts' = 2 =>
            /\ attempts = 1 /\ res.kind = "RateLimited" /\ pc = "retry"
            /\ sleeps = <<res.timeout>> /\ sleeps' = sleeps /\ post' = post
       /\ (attempts = 1 /\ res.kind = "RateLimited") =>
            /\ processed' = processed /\ post' = post
            /\ pc = "ratelimited" => (pc' = "retry" /\ sleeps' = <<res.timeout>>)
            /\ pc = "retry" => attempts' = 2
       /\ pc = "result" =>
            /\ attempts = 1 => (sleeps = <<>> /\ res.kind \in {"Ok", "Err"})
            /\ attempts = 2 => Len(sleeps) = 1
            /\ processed' = Append(processed,
                 [post |-> post,
                  state |-> IF res.kind = "Ok" THEN "Delivered" ELSE "Skipped"])
            /\ res.kind = "Ok" =>
                 /\ KeyOf(post.source_id.v) \in DOMAIN new_cache_records'
                 /\ new_cache_records'[KeyOf(post.source_id.v)] >= post.id.v
            /\ res.kind # "Ok" => new_cache_records' = new_cache_records
            /\ attempts' = 0 /\ sleeps' = <<>> /\ pc' \in {"deliver", "persist"}
      ]_vars

\* C6 witness: the retry after a sleep of the longest timeout returned Ok.
RetrySucceeded ==
    /\ pc = "result" /\ attempts = 2 /\ res.kind = "Ok"
    /\ sleeps = <<MaxRetryAfter>>

\* C7: once the feeds are collected, a post of a feed is in the processing
\* order exactly when its media is not empty and its source has no record
\* in the loaded snapshot or its id is strictly above the record.
FilterContract ==
    Filtering =>
        LET taken == Range(Order)
        IN  /\ \A i \in 1..Len(feeds) : \A j \in 1..Len(feeds[i].items) :
                  (as_iter(feeds[i])[j] \in taken)
                      <=> Unseen(feeds[i].items[j], feeds[i].group_id, cache_records)
            /\ \A f \in taken :
                  \E i \in 1..Len(feeds) : f \in Range(as_iter(feeds[i]))

\* C7 witness: the filter was applied to a feed with a post at the record
\* of its source, which is left out, above a post over the record, which
\* is taken.
BoundaryFiltered ==
    /\ Filtering /\ processed = <<>> /\ post = NoPost
    /\ \E i \in 1..Len(feeds) :
         /\ KeyOf(feeds[i].group_id) \in DOMAIN cache_records
         /\ \E a, b \in 1..Len(feeds[i].items) :
              /\ feeds[i].items[a].id = cache_records[KeyOf(feeds[i].group_id)]
              /\ feeds[i].items[a].media # <<>>
              /\ as_iter(feeds[i])[a] \notin Range(Order)
              /\ as_iter(feeds[i])[b] \in Range(Order)

\* The posts of one feed the contract keeps, in feed order.
KeptOf(feed, records) ==
    SelectSeq(as_iter(feed),
              LAMBDA f : Unseen([id |-> f.id.v, media |-> f.media],
                                feed.group_id, records))

\* C9: the processing order is, feed by feed, the kept posts of the feed
\* from its last to its first: of two kept posts of a feed the later one is
\* processed first, however many feeds were fetched and in whatever order
\* the fetches settled; the kept posts of a newest-first feed are processed
\* with strictly increasing ids.
OldestFirstWithinFeed ==
    /\ Order = Concat([k \in 1..Len(feeds) |->
                         Reverse(KeptOf(feeds[Len(feeds) + 1 - k], cache_records))])
    /\ (Filtering /\ NewestFirst
          /\ \A i, k \in 1..Len(feeds) : i # k => feeds[i].group_id # feeds[k].group_id)
        => LET order == Order
           IN  \A a, b \in 1..Len(order) :
                  (a < b /\ order[a].source_id = order[b].source_id)
                      => order[a].id.v < order[b].id.v

\* C9 witness: two sources were fetched; the feed of one came newest first
\* with two kept posts, which were processed oldest first.
ProcessedOldestFirst ==
    /\ Len(jobs) = 2 /\ Len(processed) = 2
    /\ \E i \in 1..Len(feeds) :
         /\ Len(feeds[i].items) = 2
         /\ feeds[i].items[1].id > feeds[i].items[2].id
         /\ processed[1].post = as_iter(feeds[i])[2]
         /\ processed[2].post = as_iter(feeds[i])[1]

Max(S) == CHOOSE m \in S : \A x \in S : x <= m

\* The ids of the kept posts of the feeds of the source with key k.
KeptIds(k) ==
    {feeds[i].items[j].id : <<i, j>> \in
        {ij \in (1..Len(feeds)) \X (1..MaxItems) :
            /\ ij[2] <= Len(feeds[ij[1]].items)
            /\ KeyOf(feeds[ij[1]].group_id) = k
            /\ Unseen(feeds[ij[1]].items[ij[2]], feeds[ij[1]].group_id, cache_records)}}

\* C10: in populate mode send() is never called, and when the loop is over
\* the record of every source is the maximum of its loaded value and the
\* ids of its kept posts; a source without kept posts has its loaded entry,
\* or none.
PopulateSeedsMaximum ==
    populate =>
        /\ attempts = 0 /\ res = NoRes /\ sleeps = <<>>
        /\ pc \notin {"deliver", "ratelimited", "retry", "result"}
        /\ \A i \in 1..Len(processed) : processed[i].state = "Populated"
        /\ pc \in {"persist", "exit_success"} =>
              \A k \in CacheKeys \cup DOMAIN cache_records \cup DOMAIN new_cache_records :
                  IF KeptIds(k) = {}
                  THEN /\ k \in DOMAIN new_cache_records <=> k \in DOMAIN cache_records
                       /\ k \in DOMAIN new_cache_records =>
                            new_cache_records[k] = cache_records[k]
                  ELSE /\ k \in DOMAIN new_cache_records
                       /\ new_cache_records[k] =
                            Max(KeptIds(k) \cup
                                (IF k \in DOMAIN cache_records
                                 THEN {cache_records[k]} ELSE {}))

\* C10 witness: a populate run ended with a new record, the greater of the
\* two kept ids of a source without one, and with the loaded record of
\* another source, which had no kept post.
PopulateSeededRecord ==
    /\ populate /\ pc = "exit_success"
    /\ \E k \in DOMAIN new_cache_records \ DOMAIN cache_records :
         /\ Cardinality(KeptIds(k)) = 2
         /\ new_cache_records[k] = Max(KeptIds(k))
    /\ \E o \in DOMAIN cache_records :
         /\ KeptIds(o) = {}
         /\ new_cache_records[o] = cache_records[o]

\* C11: the cache file is written in one step only, the last of the run,
\* taken once the loops are through with every post of the processing
\* order, whatever its outcome was; no earlier step changes the file, so a
\* run that stops before has left the file as it was; a run that ends has
\* made the write exactly once.
PersistOnceAtEnd ==
    [][/\ disk' # disk => pc = "persist"
       /\ written' # written =>
            /\ pc = "persist" /\ written = "none" /\ pc' = "exit_success"
            /\ posts = <<>> /\ post = NoPost
            /\ Len(processed) = Len(posts_rev(feeds, cache_records))
            /\ \A i \in 1..Len(processed) :
                  processed[i].state \in {"Delivered", "Skipped", "Populated"}
       /\ pc # "persist" => (disk' = disk /\ written' = "none")
       /\ pc' = "exit_success" => (pc = "persist" /\ written' \in {"ok", "failed"})
      ]_vars

\* C11 witness: a run ended with its cache written after one post was
\* skipped and another delivered, and the file is not what it was loaded as.
WrittenAfterMixedOutcomes ==
    /\ pc = "exit_success" /\ written = "ok"
    /\ loaded(disk) # cache_records
    /\ \E i, j \in 1..Len(processed) : Skipped(i) /\ Delivered(j)

Pending == {i \in 1..Len(jobs) : jobs[i].st = "pending"}

\* C12: the fetches of all configured accounts are started in one step, all
\* pending together; while one of them is pending the run stays in the
\* fetch (or panics there): no send() is made, no record changes and no
\* post is taken; whenever a send() was made or a record differs from the
\* loaded one, every fetch has settled with a feed or with an error.
FetchBarrier ==
    [][/\ (pc = "start" /\ pc' = "fetch") =>
            /\ Len(jobs') = Len(cfg)
            /\ \A i \in 1..Len(jobs') : jobs'[i].st = "pending"
       /\ Pending # {} =>
            /\ pc = "fetch" /\ pc' \in {"fetch", "panic"}
            /\ new_cache_records' = new_cache_records
            /\ attempts' = 0 /\ post' = NoPost
            /\ processed' = <<>> /\ feeds' = <<>> /\ posts' = <<>>
       /\ (attempts' > 0 \/ processed' # <<>> \/ new_cache_records' # cache_records') =>
            /\ Len(jobs') = Len(cfg)
            /\ \A i \in 1..Len(jobs') : jobs'[i].st \in {"Ok", "Err"}
      ]_vars

\* C12 witness: of two fetches one failed and one returned a feed, and a
\* post of that feed was then delivered.
DeliveredAfterAllSettled ==
    /\ Len(jobs) = 2
    /\ jobs[1].st = "Err" /\ jobs[2].st = "Ok"
    /\ \E i \in 1..Len(processed) : Delivered(i)

\* The accounts whose fetch failed and whose group no other account fetched.
FailedGroups ==
    {requested_group(cfg[i]) : i \in {n \in 1..Len(jobs) : jobs[n].st = "Err"}}
        \ {jobs[i].group_id : i \in {n \in 1..Len(jobs) : jobs[n].st = "Ok"}}

\* Once the results are collected: a failed fetch has left no post of its
\* source in the processing order and its record as loaded, and every kept
\* post of every feed that was returned is in the processing order.
FailedFetchLeavesRest ==
    Filtering =>
        /\ \A g \in FailedGroups :
              /\ \A n \in 1..Len(Order) : Order[n].source_id # Number(g)
              /\ KeyOf(g) \in DOMAIN new_cache_records <=> KeyOf(g) \in DOMAIN cache_records
              /\ KeyOf(g) \in DOMAIN new_cache_records =>
                    new_cache_records[KeyOf(g)] = cache_records[KeyOf(g)]
        /\ \A i \in 1..Len(jobs) : jobs[i].st = "Ok" =>
              \A n \in 1..Len(jobs[i].items) :
                  Unseen(jobs[i].items[n], jobs[i].group_id, cache_records) =>
                      \E m \in 1..Len(Order) :
                          /\ Order[m].id = Number(jobs[i].items[n].id)
                          /\ Order[m].source_id = Number(jobs[i].group_id)

\* C13: the failed fetch of an account adds no post of its source to the
\* run and leaves its record as loaded, while the kept posts of the feeds
\* that were returned are all processed; the step that collects the results
\* goes on to the loops or to the write, never to an exit; every account is
\* fetched once: a settled fetch, failed or not, is never started again.
FailedFetchIsolated ==
    [][/\ FailedFetchLeavesRest'
       /\ jobs # <<>> => Len(jobs') = Len(cfg)
       /\ \A i \in 1..Len(jobs) : jobs[i].st # "pending" => jobs'[i] = jobs[i]
       /\ (pc = "fetch" /\ Pending = {}) => pc' \in {"populate", "deliver", "persist"}
      ]_vars

\* C13 witness: of two accounts of different groups the fetch of one failed,
\* a post of the other was delivered, and the run ended with the write.
OtherSourceDelivered ==
    /\ pc = "exit_success" /\ written = "ok"
    /\ Len(jobs) = 2 /\ FailedGroups # {}
    /\ \E i \in 1..Len(processed) : Delivered(i)

\* C14: whatever the VK service and the Telegram service answer, the run
\* never panics: every failure becomes a reported outcome, every post of
\* the processing order reaches Delivered or Skipped, and the write is
\* reached.
NoAbortMidSequence ==
    /\ pc # "panic"
    /\ (~populate /\ pc \in {"persist", "exit_success"}) =>
          /\ Len(processed) = Len(posts_rev(feeds, cache_records))
          /\ \A i \in 1..Len(processed) : Delivered(i) \/ Skipped(i)

\* C15: no outcome of opening and reading the cache file ends the process
\* with failure: a missing file and a file that does not parse give the
\* empty map, and the run always goes on to the fetches.
LoadNeverFatal ==
    /\ pc # "exit_failure"
    /\ (pc = "fetch" /\ disk.kind \in {"missing", "garbage"}) =>
          cache_records = EmptyRecords

\* C16: when the serialization or the write of the cache fails, the file
\* keeps the content it had (a later run loads from it what this run
\* loaded), the map in memory is not rolled back, the write is not tried
\* again and the process exits with success.
PersistFailureNonFatal ==
    [][(pc = "persist" /\ written' = "failed") =>
          /\ loaded(disk') = loaded(disk)
          /\ new_cache_records' = new_cache_records
          /\ pc' = "exit_success"
      ]_vars

NoneDelivered == \A i \in 1..Len(processed) : ~Delivered(i)

\* C17: a normal run in which no delivery succeeded ends with the map it
\* loaded; once it has written it, a second run that loads the file and
\* gets the same feeds has the same processing order, post by post.
FailedRunRetryable ==
    (~populate /\ pc = "exit_success" /\ NoneDelivered) =>
        /\ new_cache_records = cache_records
        /\ written = "ok" =>
              /\ loaded(disk) = cache_records
              /\ posts_rev(feeds, loaded(disk)) = ProcessedPosts

\* C17 witness: a run that loaded a record and skipped both posts of its
\* processing order has written the cache.
AllSkippedAndWritten ==
    /\ ~populate /\ pc = "exit_success" /\ written = "ok"
    /\ cache_records # EmptyRecords
    /\ Len(processed) = 2 /\ NoneDelivered

\* An identifier coerces to a number when it is one or parses as one.
Coerces(id) == flatten(id).tag = "Number"

\* C18: two identifiers that coerce to the same integer are equal, in
\* every combination of number and string and in both operand orders; a
\* string that does not coerce is not equal to a number and not ordered
\* with it.
EqualAfterCoercion ==
    pc = "compared" =>
        /\ (/\ Coerces(probe.a) /\ Coerces(probe.b)
            /\ flatten(probe.a).v = flatten(probe.b).v)
              => (verdict.eq_ab /\ verdict.eq_ba)
        /\ (~Coerces(probe.a) /\ probe.b.tag = "Number") =>
              /\ ~verdict.eq_ab /\ ~verdict.eq_ba
              /\ verdict.cmp_ab = "None" /\ verdict.cmp_ba = "None"

\* C20: a < b exactly when b > a, and a > b exactly when b < a, also for a
\* number and a numeric string; the ordering answers Equal exactly when ==
\* answers true.
OrderingConsistent ==
    pc = "compared" =>
        /\ verdict.cmp_ab = "Less" <=> verdict.cmp_ba = "Greater"
        /\ verdict.cmp_ab = "Greater" <=> verdict.cmp_ba = "Less"
        /\ verdict.cmp_ab = "Equal" <=> verdict.eq_ab

\* C19: one post at a time is in delivery: a send() of a next post is made
\* only when no post is in hand and every post taken before has reached
\* Delivered or Skipped; while a post is in hand, through its send(), its
\* rate-limit wait and its retry, every send() is of that post and no other
\* post is taken; the post in hand is let go only into Delivered or Skipped.
SequentialDelivery ==
    [][/\ (post' # NoPost /\ post' # post) =>
            /\ post = NoPost /\ pc = "deliver" /\ attempts = 0 /\ attempts' = 1
            /\ post' = Head(posts) /\ posts' = Tail(posts)
            /\ Len(processed) + Len(posts) = Len(posts_rev(feeds, cache_records))
            /\ \A i \in 1..Len(processed) : Delivered(i) \/ Skipped(i)
       /\ post # NoPost =>
            /\ posts' = posts
            /\ attempts' > attempts => (post' = post /\ pc = "retry")
            /\ \/ post' = post /\ processed' = processed
               \/ /\ post' = NoPost /\ pc = "result"
                  /\ Len(processed') = Len(processed) + 1
                  /\ LastProcessed.post = post
                  /\ LastProcessed.state \in {"Delivered", "Skipped"}
       /\ pc \in {"ratelimited", "retry"} => (post # NoPost /\ post' = post)
      ]_vars

\* C19 witness: a post is in hand after its rate-limit wait, about to be
\* retried, while the next post of the processing order is still untaken.
WaitingWhileNextQueued ==
    /\ pc = "retry" /\ sleeps = <<MaxRetryAfter>>
    /\ post # NoPost /\ posts # <<>> /\ processed = <<>>

\* The ids of the posts of the source with key k that were delivered.
DeliveredIds(k) ==
    {processed[i].post.id.v : i \in
        {n \in 1..Len(processed) :
            Delivered(n) /\ to_string(processed[n].post.source_id) = k}}

\* C21: at the end of a normal run the record of every source is the
\* maximum of its loaded value, if any, and the ids of its posts delivered
\* in the run; a key is there exactly when it was loaded or has such a
\* post; a source without a delivered post has its loaded entry; and the
\* file a successful write leaves holds exactly that map.
ExactFinalWatermark ==
    (~populate /\ pc \in {"persist", "exit_success"}) =>
        /\ \A k \in CacheKeys \cup DOMAIN cache_records \cup DOMAIN new_cache_records :
              IF DeliveredIds(k) = {}
              THEN /\ k \in DOMAIN new_cache_records <=> k \in DOMAIN cache_records
                   /\ k \in DOMAIN new_cache_records =>
                        new_cache_records[k] = cache_records[k]
              ELSE /\ k \in DOMAIN new_cache_records
                   /\ new_cache_records[k] =
                        Max(DeliveredIds(k) \cup
                            (IF k \in DOMAIN cache_records
                             THEN {cache_records[k]} ELSE {}))
        /\ written = "ok" => disk = [kind |-> "json", vk |-> new_cache_records]

\* C21 witness: a normal run wrote the cache with the record of one source
\* raised to a delivered id and the loaded record of another source, whose
\* post was skipped, as it was.
RaisedAndUntouchedWritten ==
    /\ ~populate /\ pc = "exit_success" /\ written = "ok"
    /\ \E k, o \in DOMAIN cache_records :
         /\ k # o
         /\ loaded(disk)[k] > cache_records[k]
         /\ loaded(disk)[k] = Max(DeliveredIds(k))
         /\ loaded(disk)[o] = cache_records[o]
         /\ \E i \in 1..Len(processed) :
              Skipped(i) /\ to_string(processed[i].post.source_id) = o

\* C22: every send(), the first of a post and the retry, is made with a
\* post whose media list is not empty, and so is every post still to be
\* sent: the text-only path of the adapter is never entered.
TextOnlyUnreachable ==
    [][/\ attempts' > attempts => (post' # NoPost /\ post'.media # <<>>)
       /\ \A n \in 1..Len(posts') : posts'[n].media # <<>>
      ]_vars

\* C22 witness: a fetched feed holds a post without media that only its
\* media keeps out, and another post was sent and, after a rate-limit
\* answer, sent again.
MediaLessDroppedOtherRetried ==
    /\ pc = "result" /\ attempts = 2 /\ post.media # <<>>
    /\ \E i \in 1..Len(feeds) : \E j \in 1..Len(feeds[i].items) :
         /\ feeds[i].items[j].media = <<>>
         /\ Unseen([feeds[i].items[j] EXCEPT !.media = <<"Photo">>],
                   feeds[i].group_id, cache_records)
         /\ as_iter(feeds[i])[j] \notin Range(Order)

====
